---- MODULE Spec2Model ----
(***************************************************************************)
(* mm-guest-audit: the audit pipeline RunAudit / processGuest (audit.go)   *)
(* run against a MattermostClient port whose responses are chosen          *)
(* nondeterministically, one action per port call (Spec, SpecPaging); the  *)
(* process around it, main.run and WriteOutput (SpecRun); and functions    *)
(* applied on their own to arguments drawn from bounded sets (SpecPure).   *)
(* RunAudit runs with verbose == false.                                    *)
(*                                                                         *)
(* Representation.  Go strings are TLA+ strings ("" is the empty string),  *)
(* a *time.Time is a sequence: <<>> for nil, <<ms>> for the instant ms     *)
(* milliseconds after the Unix epoch, a nil slice is <<>>.                 *)
(***************************************************************************)
EXTENDS Integers, Sequences, FiniteSets, TLC

\* ------------------------------------------------------------------ bounds

\* Longest guest list the port serves in Spec.
MaxGuests == 2

\* Page size of the runs of Spec.  The source fixes perPage at 200
\* (PerPage); Spec scales it down so that full pages, guests of later pages
\* and the enrichment of every listed guest are all explored.  SpecPaging
\* runs the pagination loop with the source's 200.
PageSize == 1

\* Longest guest list the port serves in SpecPaging.
MaxPagedGuests == 450

\* Largest inactivity threshold, in days, IsInactiveAt is applied to in
\* SpecPure.
MaxThresholdDays == 3

\* Longest channel list formatChannelNamesTable is applied to in SpecPure.
MaxChannels == 4

\* The most teams GetLastPostDateForUser is given, and the most posts one
\* search returns.
MaxTeams == 2
MaxPosts == 2

\* ------------------------------------------------------- program constants

ExitSuccess == 0
ExitConfigError == 1
ExitAPIError == 2
ExitPartialFailure == 3
ExitOutputError == 4

\* perPage := 200 in RunAudit.
PerPage == 200

\* maxDisplay := 2 in formatChannelNamesTable.
MaxDisplay == 2

\* ------------------------------------------------------------- environment

DayMs == 24 * 60 * 60 * 1000

\* The instant time.Now() returns during the run (20 days after the epoch:
\* TLC's integers are 32 bits wide, so instants stay below 2^31 ms).
NowMs == 20 * DayMs

\* Values of --inactive-days: flagging disabled (the default 0, and a
\* negative number), and a 7 day threshold.
InactiveDaysChoices == {-1, 0, 7}

\* Values of User.LastActivityAt besides 0 (never logged in): 10 days ago
\* and 5 days ago.
OldMs == NowMs - 10 * DayMs
RecentMs == NowMs - 5 * DayMs

\* (DeleteAt, LastActivityAt) of the accounts the port can list: enabled
\* with a recent login, deactivated with an old login, enabled and never
\* logged in, enabled with an old login.  A guest list takes its accounts'
\* profiles from this cycle, in order, from any starting point.
Profiles ==
    << <<0, RecentMs>>, <<3 * DayMs, OldMs>>, <<0, 0>>, <<0, OldMs>> >>

ProfileOf(i, offset) == Profiles[((i + offset) % Len(Profiles)) + 1]

Team1 == [Id |-> "team1", DisplayName |-> "Engineering"]
Team2 == [Id |-> "team2", DisplayName |-> "Sales"]

\* The name given with --team, and the team the port resolves it to.
TeamFilterName == "Sales"
FilterTeam == Team2

\* The team memberships an account can have, in the order GetTeamsForUser
\* lists them.
TeamLists == { <<>>, <<Team1>>, <<Team2>>, <<Team1, Team2>> }

\* The channels of a member of a team (mockClient.channels): what
\* GetChannelsForTeamForUser answers on success.
PortChannels(teamID, userID) ==
    IF teamID = "team1"
    THEN <<[DisplayName |-> "General"], [DisplayName |-> "Dev Backend"]>>
    ELSE <<[DisplayName |-> "Partner Updates"]>>

\* What GetLastPostDateForUser can answer on success: no post found, or the
\* instant of the latest one.
LastPostChoices == { <<>>, <<NowMs - 2 * DayMs>> }

\* Error() of the errors the port returns.
PortErrors == { "error: API request failed (HTTP 500)" }

\* Error() of the errors GetTeamByName returns: not found, and any other.
TeamByNameErrors ==
    { "error: team \"Sales\" not found. Please check the name and try again",
      "error: API request failed (HTTP 500)" }

FirstNameOf(i) == IF i % 2 = 1 THEN "Jane" ELSE ""
LastNameOf(i) == IF i % 3 = 0 THEN "" ELSE "Doe"

\* The i-th account of the port's guest list.
MkUser(i, deleteAt, lastActivityAt) ==
    [ Id |-> "user" \o ToString(i),
      Username |-> "guest" \o ToString(i),
      FirstName |-> FirstNameOf(i),
      LastName |-> LastNameOf(i),
      Email |-> "guest" \o ToString(i) \o "@example.com",
      CreateAt |-> IF i % 4 = 0 THEN 0 ELSE DayMs + i,
      LastActivityAt |-> lastActivityAt,
      DeleteAt |-> deleteAt ]

\* ------------------------------------------------------------------- state

VARIABLES
    guests,        \* port: the fixed list of guest accounts it serves
    memberships,   \* port: per listed account, the teams it is a member of
    teamFilter,    \* RunAudit argument
    inactiveDays,  \* RunAudit argument
    perPage,       \* RunAudit local (200 in the source; see PageSize)
    pc,            \* position in RunAudit / processGuest
    filterTeamID,  \* RunAudit local
    page,          \* RunAudit local
    allGuests,     \* RunAudit local
    idx,           \* index in allGuests of the guest being processed
    teamInfos,     \* processGuest local
    channels,      \* processGuest local
    teamIDs,       \* processGuest local
    result,        \* *AuditResult under construction
    exitCode,      \* RunAudit local
    ret,           \* <<>> until RunAudit returns, then <<[isNil, code]>>
    calls,         \* history: the port calls made, in order
    origin,        \* history: per record of result.Guests, its index in allGuests
    flags,         \* main.run: the parsed command line
    exit,          \* <<>> until the process exits, then <<code>>
    stdout,        \* what the process wrote to os.Stdout, in order
    stderr,        \* what the process wrote to os.Stderr, in order
    file,          \* <<>>, or <<document>>: the file at --output once created
    unit,          \* <<>>, or a function under test: its name, arguments, result
    first          \* <<>>, or <<the calls and the return of an earlier RunAudit>>

vars == << guests, memberships, teamFilter, inactiveDays, perPage, pc, filterTeamID, page,
           allGuests, idx, teamInfos, channels, teamIDs, result, exitCode,
           ret, calls, origin, flags, exit, stdout, stderr, file, unit,
           first >>

\* ----------------------------------------------------------- pure helpers

Nil == <<>>

\* MillisToTime: nil for 0, else the instant.
MillisToTime(millis) == IF millis = 0 THEN Nil ELSE <<millis>>

BuildDisplayName(firstName, lastName) ==
    CASE firstName # "" /\ lastName # "" -> firstName \o " " \o lastName
      [] firstName # "" -> firstName
      [] lastName # "" -> lastName
      [] OTHER -> ""

\* Mutant of IsInactiveAt: a login at the cutoff instant counts as inactive.
IsInactiveAtInclusive(lastLogin, days, now) ==
    IF days <= 0 THEN FALSE
    ELSE IF lastLogin = Nil THEN TRUE
    ELSE lastLogin[1] <= now - days * DayMs

\* IsInactiveAt(lastLogin, inactiveDays, now); now.AddDate(0, 0, -n) in UTC.
IsInactiveAt(lastLogin, days, now) ==
    IF days <= 0 THEN FALSE
    ELSE IF lastLogin = Nil THEN TRUE
    ELSE lastLogin[1] < now - days * DayMs

\* Mutant of IsInactive: the test for disabled flagging is missing.
IsInactiveAlwaysFlagging(lastLogin, days) ==
    IF lastLogin = Nil THEN TRUE
    ELSE lastLogin[1] < NowMs - days * DayMs

\* IsInactive reads the clock.
IsInactive(lastLogin, days) == IsInactiveAt(lastLogin, days, NowMs)

\* ---------------------------------------------------------------- records

\* One port call: the operation, its arguments ("" / 0 / <<>> where the
\* operation has none) and the error it returned ("" for success).  The
\* call of GetLastPostDateForUser also has the time returned, as answer.
Call(op, pg, n, user, team, teams, err) ==
    [ op |-> op, page |-> pg, perPage |-> n, user |-> user, team |-> team,
      teams |-> teams, err |-> err ]

EmptySummary ==
    [ TotalGuests |-> 0, ActiveGuests |-> 0, InactiveGuests |-> 0,
      DeactivatedGuests |-> 0, FailedLookups |-> 0 ]

\* Mutant of ErrorRecord: the stub keeps the account's last login.
ErrorRecordKeepsLogin(u, errText) ==
    [ Username |-> u.Username,
      DisplayName |-> BuildDisplayName(u.FirstName, u.LastName),
      Email |-> u.Email,
      CreatedAt |-> MillisToTime(u.CreateAt),
      LastLogin |-> MillisToTime(u.LastActivityAt),
      LastPost |-> Nil,
      Teams |-> <<>>,
      Channels |-> <<>>,
      Active |-> (u.DeleteAt = 0),
      Inactive |-> FALSE,
      Error |-> errText ]

\* The record RunAudit synthesizes when processGuest returns an error: the
\* fields it does not set keep Go's zero values.
ErrorRecord(u, errText) ==
    [ Username |-> u.Username,
      DisplayName |-> BuildDisplayName(u.FirstName, u.LastName),
      Email |-> u.Email,
      CreatedAt |-> MillisToTime(u.CreateAt),
      LastLogin |-> Nil,
      LastPost |-> Nil,
      Teams |-> <<>>,
      Channels |-> <<>>,
      Active |-> (u.DeleteAt = 0),
      Inactive |-> FALSE,
      Error |-> errText ]

\* The record processGuest builds when every required fetch succeeded.
FullRecord(u, tInfos, chans, lastPost, days) ==
    [ Username |-> u.Username,
      DisplayName |-> BuildDisplayName(u.FirstName, u.LastName),
      Email |-> u.Email,
      CreatedAt |-> MillisToTime(u.CreateAt),
      LastLogin |-> MillisToTime(u.LastActivityAt),
      LastPost |-> lastPost,
      Teams |-> tInfos,
      Channels |-> chans,
      Active |-> (u.DeleteAt = 0),
      Inactive |-> IsInactive(MillisToTime(u.LastActivityAt), days),
      Error |-> "" ]

\* Mutant of FilterTeams: the team filter is not applied.
FilterTeamsKeepsAll(teams, filterID) ==
    [ k \in 1..Len(teams) |-> [ID |-> teams[k].Id, DisplayName |-> teams[k].DisplayName] ]

\* Mutant of FilterTeams: the memberships are kept last first.
FilterTeamsReversed(teams, filterID) ==
    LET kept == SelectSeq(teams, LAMBDA t : filterID = "" \/ t.Id = filterID)
    IN [ k \in 1..Len(kept) |->
           [ ID |-> kept[Len(kept) + 1 - k].Id,
             DisplayName |-> kept[Len(kept) + 1 - k].DisplayName ] ]

\* processGuest's team loop: the memberships kept, as TeamInfo.
RECURSIVE FilterTeams(_, _)
FilterTeams(teams, filterID) ==
    IF teams = <<>> THEN <<>>
    ELSE LET t == Head(teams)
             rest == FilterTeams(Tail(teams), filterID)
         IN IF filterID # "" /\ t.Id # filterID
            THEN rest
            ELSE <<[ID |-> t.Id, DisplayName |-> t.DisplayName]>> \o rest

\* processGuest's inner channel loop for one team.
ChannelInfos(ti, chs) ==
    [ k \in 1..Len(chs) |->
        [TeamName |-> ti.DisplayName, ChannelName |-> chs[k].DisplayName] ]

\* The errors processGuest wraps.
TeamsError(e) == "failed to get teams: " \o e
ChannelsError(ti, e) ==
    "failed to get channels for team \"" \o ti.DisplayName \o "\": " \o e

\* RunAudit's summary loop over result.Guests: the bucket of a record.
IsDeactivatedRec(g) == g.Error = "" /\ ~g.Active
IsInactiveRec(g) == g.Error = "" /\ g.Active /\ g.Inactive
IsActiveRec(g) == g.Error = "" /\ g.Active /\ ~g.Inactive

\* Mutant of guestStatus: the inactivity flag is looked at first.
guestStatusInactiveFirst(g) ==
    IF g.Inactive THEN "Inactive"
    ELSE IF ~g.Active THEN "Deactivated"
    ELSE "Active"

\* guestStatus: the status word of a record's row in the table.
guestStatus(g) ==
    IF ~g.Active THEN "Deactivated"
    ELSE IF g.Inactive THEN "Inactive"
    ELSE "Active"

\* Mutant of Summarized: records with an error are not left out of the
\* deactivated / inactive / active counts.
SummarizedCountingStubs(gs, summary) ==
    [ summary EXCEPT
        !.DeactivatedGuests =
            @ + Cardinality({ k \in 1..Len(gs) : ~gs[k].Active }),
        !.InactiveGuests =
            @ + Cardinality({ k \in 1..Len(gs) : gs[k].Active /\ gs[k].Inactive }),
        !.ActiveGuests =
            @ + Cardinality({ k \in 1..Len(gs) : gs[k].Active /\ ~gs[k].Inactive }),
        !.TotalGuests = Len(gs) ]

\* Mutant of Summarized: the inactivity flag is looked at before the enabled
\* flag.
SummarizedInactiveFirst(gs, summary) ==
    [ summary EXCEPT
        !.InactiveGuests =
            @ + Cardinality({ k \in 1..Len(gs) : gs[k].Error = "" /\ gs[k].Inactive }),
        !.DeactivatedGuests =
            @ + Cardinality({ k \in 1..Len(gs) :
                                gs[k].Error = "" /\ ~gs[k].Inactive /\ ~gs[k].Active }),
        !.ActiveGuests =
            @ + Cardinality({ k \in 1..Len(gs) : IsActiveRec(gs[k]) }),
        !.TotalGuests = Len(gs) ]

Summarized(gs, summary) ==
    [ summary EXCEPT
        !.DeactivatedGuests =
            @ + Cardinality({ k \in 1..Len(gs) : IsDeactivatedRec(gs[k]) }),
        !.InactiveGuests =
            @ + Cardinality({ k \in 1..Len(gs) : IsInactiveRec(gs[k]) }),
        !.ActiveGuests =
            @ + Cardinality({ k \in 1..Len(gs) : IsActiveRec(gs[k]) }),
        !.TotalGuests = Len(gs) ]

\* mockClient.GetGuestUsers: the page of the fixed list.
PortGuestPage(pg, n) ==
    LET start == pg * n
        end == IF start + n > Len(guests) THEN Len(guests) ELSE start + n
    IN IF start >= Len(guests) THEN <<>> ELSE SubSeq(guests, start + 1, end)

\* Mutant of LastPage: the loop ends only on an empty page.
LastPageOnlyWhenEmpty(users, n) == Len(users) = 0

\* The pagination loop's exit test.
LastPage(users, n) == Len(users) < n

\* ------------------------------------------------------------------ init

GuestLists ==
    { [ i \in 1..n |-> MkUser(i, ProfileOf(i, o)[1], ProfileOf(i, o)[2]) ] :
        n \in 0..MaxGuests, o \in 0..(Len(Profiles) - 1) }

\* The command line of the runs of Spec: a report as a table on stdout.
DefaultFlags ==
    [ version |-> FALSE, url |-> "https://mm.example.com", format |-> "table",
      output |-> "" ]

\* RunAudit's locals at its entry, and a process that has written nothing.
Fresh ==
    /\ filterTeamID = ""
    /\ page = 0
    /\ allGuests = <<>>
    /\ idx = 1
    /\ teamInfos = <<>>
    /\ channels = <<>>
    /\ teamIDs = <<>>
    /\ result = [Guests |-> <<>>, Summary |-> EmptySummary, InactiveDays |-> inactiveDays]
    /\ exitCode = ExitSuccess
    /\ ret = <<>>
    /\ calls = <<>>
    /\ origin = <<>>
    /\ exit = <<>>
    /\ stdout = <<>>
    /\ stderr = <<>>
    /\ file = <<>>

\* The entry of RunAudit.
Start ==
    /\ pc = "resolve"
    /\ Fresh
    /\ unit = <<>>
    /\ first = <<>>

Init ==
    /\ guests \in GuestLists
    /\ memberships \in [1..Len(guests) -> TeamLists]
    /\ teamFilter \in {"", TeamFilterName}
    /\ inactiveDays \in InactiveDaysChoices
    /\ perPage = PageSize
    /\ flags = DefaultFlags
    /\ Start

\* ---------------------------------------------------------------- actions

inputs == << guests, memberships, teamFilter, inactiveDays, perPage >>
locals == << teamInfos, channels, teamIDs >>
process == << flags, exit, stdout, stderr, file >>

Return(isNil, code) == ret' = << [isNil |-> isNil, code |-> code] >>

\* Mutant of SkipTeamFilter: the team is looked up also when no filter is
\* given.
SkipTeamFilterLooksUp ==
    /\ pc = "resolve"
    /\ teamFilter = ""
    /\ calls' = Append(calls, Call("GetTeamByName", 0, 0, "", teamFilter, <<>>, ""))
    /\ pc' = "paginate"
    /\ UNCHANGED << inputs, process, unit, first, locals, filterTeamID, page,
                    allGuests, idx, result, exitCode, ret, origin >>

\* RunAudit, teamFilter == "": no team is resolved.
SkipTeamFilter ==
    /\ pc = "resolve"
    /\ teamFilter = ""
    /\ pc' = "paginate"
    /\ UNCHANGED << inputs, process, unit, first, locals, filterTeamID, page,
                    allGuests, idx, result, exitCode, ret, calls, origin >>

\* Mutant of ResolveTeamFilter: a failed lookup leaves the run unscoped.
ResolveTeamFilterIgnoresError ==
    /\ pc = "resolve"
    /\ teamFilter # ""
    /\ \E err \in {""} \cup TeamByNameErrors :
        /\ calls' = Append(calls, Call("GetTeamByName", 0, 0, "", teamFilter, <<>>, err))
        /\ filterTeamID' = IF err # "" THEN "" ELSE FilterTeam.Id
        /\ pc' = "paginate"
    /\ UNCHANGED << inputs, process, unit, first, locals, page, allGuests, idx,
                    result, exitCode, ret, origin >>

\* RunAudit, teamFilter != "": GetTeamByName, and the return on its error.
ResolveTeamFilter ==
    /\ pc = "resolve"
    /\ teamFilter # ""
    /\ \E err \in {""} \cup TeamByNameErrors :
        /\ calls' = Append(calls, Call("GetTeamByName", 0, 0, "", teamFilter, <<>>, err))
        /\ IF err # ""
           THEN /\ stderr' = Append(stderr, err)
                /\ Return(TRUE, ExitConfigError)
                /\ pc' = "done"
                /\ UNCHANGED filterTeamID
           ELSE /\ filterTeamID' = FilterTeam.Id
                /\ pc' = "paginate"
                /\ UNCHANGED << ret, stderr >>
    /\ UNCHANGED << inputs, flags, exit, stdout, file, unit, first, locals, page,
                    allGuests, idx, result, exitCode, origin >>

\* Mutant of FetchPage: a failed page ends the loop like a short page.
FetchPageBreaksOnError ==
    /\ pc = "paginate"
    /\ \E err \in {""} \cup PortErrors :
        /\ calls' = Append(calls, Call("GetGuestUsers", page, perPage, "", "", <<>>, err))
        /\ LET users == IF err # "" THEN <<>> ELSE PortGuestPage(page, perPage)
           IN /\ allGuests' = allGuests \o users
              /\ IF Len(users) < perPage
                 THEN pc' = "guest" /\ UNCHANGED page
                 ELSE pc' = "paginate" /\ page' = page + 1
    /\ UNCHANGED << inputs, process, unit, first, locals, filterTeamID, idx,
                    result, exitCode, ret, origin >>

\* One iteration of the pagination loop: GetGuestUsers(page, perPage).
FetchPage ==
    /\ pc = "paginate"
    /\ \E err \in {""} \cup PortErrors :
        /\ calls' = Append(calls, Call("GetGuestUsers", page, perPage, "", "", <<>>, err))
        /\ IF err # ""
           THEN /\ stderr' = Append(stderr, err)
                /\ Return(TRUE, ExitAPIError)
                /\ pc' = "done"
                /\ UNCHANGED << allGuests, page >>
           ELSE LET users == PortGuestPage(page, perPage)
                IN /\ allGuests' = allGuests \o users
                   /\ IF LastPage(users, perPage)
                      THEN pc' = "guest" /\ UNCHANGED page
                      ELSE pc' = "paginate" /\ page' = page + 1
                   /\ UNCHANGED << ret, stderr >>
    /\ UNCHANGED << inputs, flags, exit, stdout, file, unit, first, locals,
                    filterTeamID, idx, result, exitCode, origin >>

\* Mutant of AfterProcessGuest: a guest whose enrichment failed is counted
\* but gets no record.
AfterProcessGuestDropsFailed(rec, err) ==
    /\ result' =
         [ result EXCEPT
             !.Summary.FailedLookups = IF err # Nil THEN @ + 1 ELSE @,
             !.Guests = IF rec = <<>> THEN @ ELSE Append(@, rec[1]) ]
    /\ exitCode' = IF err # Nil THEN ExitPartialFailure ELSE exitCode
    /\ origin' = IF rec = <<>> THEN origin ELSE Append(origin, idx)
    /\ idx' = idx + 1
    /\ pc' = "guest"
    /\ teamInfos' = <<>>
    /\ channels' = <<>>
    /\ teamIDs' = <<>>

\* Mutant of AfterProcessGuest: the record is put in front of the records
\* collected so far.
AfterProcessGuestPrepends(rec, err) ==
    LET u == allGuests[idx]
        record == IF err # Nil THEN <<ErrorRecord(u, err[1])>> ELSE rec
    IN /\ result' =
            [ result EXCEPT
                !.Summary.FailedLookups = IF err # Nil THEN @ + 1 ELSE @,
                !.Guests = record \o @ ]
       /\ exitCode' = IF err # Nil THEN ExitPartialFailure ELSE exitCode
       /\ origin' = (IF record = <<>> THEN <<>> ELSE <<idx>>) \o origin
       /\ idx' = idx + 1
       /\ pc' = "guest"
       /\ teamInfos' = <<>>
       /\ channels' = <<>>
       /\ teamIDs' = <<>>

\* Mutant of AfterProcessGuest: a guest's failure ends the loop, and the
\* guests after it get no record.
AfterProcessGuestStopsAtFailure(rec, err) ==
    LET u == allGuests[idx]
        record == IF err # Nil THEN <<ErrorRecord(u, err[1])>> ELSE rec
    IN /\ result' =
            [ result EXCEPT
                !.Summary.FailedLookups = IF err # Nil THEN @ + 1 ELSE @,
                !.Guests = IF record = <<>> THEN @ ELSE Append(@, record[1]) ]
       /\ exitCode' = IF err # Nil THEN ExitPartialFailure ELSE exitCode
       /\ origin' = IF record = <<>> THEN origin ELSE Append(origin, idx)
       /\ idx' = IF err # Nil THEN Len(allGuests) + 1 ELSE idx + 1
       /\ pc' = "guest"
       /\ teamInfos' = <<>>
       /\ channels' = <<>>
       /\ teamIDs' = <<>>

\* RunAudit's loop body after processGuest returned (rec, err): rec is <<>>
\* for nil or <<record>>, err is Nil or <<text>>.
AfterProcessGuest(rec, err) ==
    LET u == allGuests[idx]
        record == IF err # Nil THEN <<ErrorRecord(u, err[1])>> ELSE rec
    IN /\ result' =
            [ result EXCEPT
                !.Summary.FailedLookups = IF err # Nil THEN @ + 1 ELSE @,
                !.Guests = IF record = <<>> THEN @ ELSE Append(@, record[1]) ]
       /\ exitCode' = IF err # Nil THEN ExitPartialFailure ELSE exitCode
       /\ origin' = IF record = <<>> THEN origin ELSE Append(origin, idx)
       /\ idx' = idx + 1
       /\ pc' = "guest"
       /\ teamInfos' = <<>>
       /\ channels' = <<>>
       /\ teamIDs' = <<>>

\* Mutant of FetchTeams: a guest with no team in scope is skipped, with or
\* without a team filter.
FetchTeamsSkipsTeamless ==
    /\ pc = "guest"
    /\ idx <= Len(allGuests)
    /\ LET u == allGuests[idx] IN
       \/ \E e \in PortErrors :
            /\ calls' = Append(calls, Call("GetTeamsForUser", 0, 0, u.Id, "", <<>>, e))
            /\ AfterProcessGuest(<<>>, <<TeamsError(e)>>)
       \/ LET teams == memberships[idx]
              tis == FilterTeams(teams, filterTeamID)
          IN
            /\ calls' = Append(calls, Call("GetTeamsForUser", 0, 0, u.Id, "", <<>>, ""))
            /\ IF Len(tis) = 0
               THEN AfterProcessGuest(<<>>, Nil)
               ELSE /\ pc' = "channels"
                    /\ teamInfos' = tis
                    /\ UNCHANGED << channels, teamIDs, result, exitCode, origin, idx >>
    /\ UNCHANGED << inputs, process, unit, first, filterTeamID, page, allGuests, ret >>

\* processGuest up to the channel loop: GetTeamsForUser, the team filter,
\* the skip of a guest outside the filtered team, and the record of a guest
\* with no team.
FetchTeams ==
    /\ pc = "guest"
    /\ idx <= Len(allGuests)
    /\ LET u == allGuests[idx] IN
       \/ \E e \in PortErrors :
            /\ calls' = Append(calls, Call("GetTeamsForUser", 0, 0, u.Id, "", <<>>, e))
            /\ AfterProcessGuest(<<>>, <<TeamsError(e)>>)
       \/ LET teams == memberships[idx]
              tis == FilterTeams(teams, filterTeamID)
          IN
            /\ calls' = Append(calls, Call("GetTeamsForUser", 0, 0, u.Id, "", <<>>, ""))
            /\ IF filterTeamID # "" /\ Len(tis) = 0
               THEN AfterProcessGuest(<<>>, Nil)
               ELSE IF Len(tis) = 0
               THEN AfterProcessGuest(<<FullRecord(u, tis, <<>>, Nil, inactiveDays)>>, Nil)
               ELSE /\ pc' = "channels"
                    /\ teamInfos' = tis
                    /\ UNCHANGED << channels, teamIDs, result, exitCode, origin, idx >>
    /\ UNCHANGED << inputs, process, unit, first, filterTeamID, page, allGuests, ret >>

\* Mutant of FetchChannels: a team whose channels cannot be fetched is
\* passed over and enrichment goes on.
FetchChannelsSkipsFailedTeam ==
    /\ pc = "channels"
    /\ LET u == allGuests[idx]
           ti == teamInfos[Len(teamIDs) + 1]
       IN \E err \in {""} \cup PortErrors :
            /\ calls' = Append(calls, Call("GetChannelsForTeamForUser", 0, 0, u.Id, ti.ID, <<>>, err))
            /\ teamIDs' = Append(teamIDs, ti.ID)
            /\ channels' = IF err # "" THEN channels
                           ELSE channels \o ChannelInfos(ti, PortChannels(ti.ID, u.Id))
            /\ pc' = IF Len(teamIDs) + 1 = Len(teamInfos) THEN "lastpost" ELSE "channels"
            /\ UNCHANGED << teamInfos, result, exitCode, origin, idx >>
    /\ UNCHANGED << inputs, process, unit, first, filterTeamID, page, allGuests, ret >>

\* One iteration of processGuest's channel loop: GetChannelsForTeamForUser.
FetchChannels ==
    /\ pc = "channels"
    /\ LET u == allGuests[idx]
           ti == teamInfos[Len(teamIDs) + 1]
       IN
       \/ \E e \in PortErrors :
            /\ calls' = Append(calls, Call("GetChannelsForTeamForUser", 0, 0, u.Id, ti.ID, <<>>, e))
            /\ AfterProcessGuest(<<>>, <<ChannelsError(ti, e)>>)
       \/ LET chs == PortChannels(ti.ID, u.Id) IN
            /\ calls' = Append(calls, Call("GetChannelsForTeamForUser", 0, 0, u.Id, ti.ID, <<>>, ""))
            /\ teamIDs' = Append(teamIDs, ti.ID)
            /\ channels' = channels \o ChannelInfos(ti, chs)
            /\ pc' = IF Len(teamIDs) + 1 = Len(teamInfos) THEN "lastpost" ELSE "channels"
            /\ UNCHANGED << teamInfos, result, exitCode, origin, idx >>
    /\ UNCHANGED << inputs, process, unit, first, filterTeamID, page, allGuests, ret >>

\* Mutant of FetchLastPost: a failed last-post lookup fails the guest.
FetchLastPostFatal ==
    /\ pc = "lastpost"
    /\ Len(teamIDs) > 0
    /\ LET u == allGuests[idx] IN
       \E resp \in { [time |-> t, err |-> ""] : t \in LastPostChoices }
                   \cup { [time |-> Nil, err |-> e] : e \in PortErrors } :
            /\ calls' = Append(calls, Call("GetLastPostDateForUser", 0, 0, u.Id, "", teamIDs, resp.err))
            /\ IF resp.err # ""
               THEN AfterProcessGuest(<<>>, <<"failed to get last post: " \o resp.err>>)
               ELSE AfterProcessGuest(
                      <<FullRecord(u, teamInfos, channels, resp.time, inactiveDays)>>, Nil)
    /\ UNCHANGED << inputs, process, unit, first, filterTeamID, page, allGuests, ret >>

\* Mutant of FetchLastPost: the last post is searched in every team the
\* guest is a member of.
FetchLastPostSearchesAllTeams ==
    /\ pc = "lastpost"
    /\ Len(teamIDs) > 0
    /\ LET u == allGuests[idx]
           all == [ k \in 1..Len(memberships[idx]) |-> memberships[idx][k].Id ]
       IN
       \E resp \in { [time |-> t, err |-> ""] : t \in LastPostChoices }
                   \cup { [time |-> Nil, err |-> e] : e \in PortErrors } :
            /\ calls' = Append(calls, Call("GetLastPostDateForUser", 0, 0, u.Id, "", all, resp.err))
            /\ AfterProcessGuest(
                 <<FullRecord(u, teamInfos, channels, resp.time, inactiveDays)>>, Nil)
    /\ UNCHANGED << inputs, process, unit, first, filterTeamID, page, allGuests, ret >>

\* processGuest from the last-post lookup to its return.  Both clients of
\* the repository return a nil time with an error.
FetchLastPost ==
    /\ pc = "lastpost"
    /\ Len(teamIDs) > 0
    /\ LET u == allGuests[idx] IN
       \E resp \in { [time |-> t, err |-> ""] : t \in LastPostChoices }
                   \cup { [time |-> Nil, err |-> e] : e \in PortErrors } :
            /\ calls' = Append(calls,
                 Call("GetLastPostDateForUser", 0, 0, u.Id, "", teamIDs, resp.err)
                   @@ [answer |-> resp.time])
            /\ AfterProcessGuest(
                 <<FullRecord(u, teamInfos, channels, resp.time, inactiveDays)>>, Nil)
    /\ UNCHANGED << inputs, process, unit, first, filterTeamID, page, allGuests, ret >>

\* Mutant of Summarize: the run always reports success.
SummarizeReturnsSuccess ==
    /\ pc = "guest"
    /\ idx > Len(allGuests)
    /\ result' = [result EXCEPT !.Summary = Summarized(result.Guests, @)]
    /\ Return(FALSE, ExitSuccess)
    /\ pc' = "done"
    /\ UNCHANGED << inputs, process, unit, first, locals, filterTeamID, page,
                    allGuests, idx, exitCode, calls, origin >>

\* Mutant of Summarize: the accounts of the guests flagged inactive are
\* deactivated on the server.
SummarizeDeactivatesInactive ==
    /\ pc = "guest"
    /\ idx > Len(allGuests)
    /\ result' = [result EXCEPT !.Summary = Summarized(result.Guests, @)]
    /\ Return(FALSE, exitCode)
    /\ pc' = "done"
    /\ guests' =
         [ i \in 1..Len(guests) |->
             IF \E k \in 1..Len(origin) : origin[k] = i /\ result.Guests[k].Inactive
             THEN [ guests[i] EXCEPT !.DeleteAt = NowMs ]
             ELSE guests[i] ]
    /\ calls' =
         IF \E k \in 1..Len(result.Guests) : result.Guests[k].Inactive
         THEN Append(calls, Call("UpdateUserActive", 0, 0, "", "", <<>>, ""))
         ELSE calls
    /\ UNCHANGED << memberships, teamFilter, inactiveDays, perPage, process, unit, first,
                    locals, filterTeamID, page, allGuests, idx, exitCode, origin >>

\* Mutant of Summarize: a run in which a guest failed returns no result.
SummarizeDropsPartialResult ==
    /\ pc = "guest"
    /\ idx > Len(allGuests)
    /\ result' = [result EXCEPT !.Summary = Summarized(result.Guests, @)]
    /\ Return(exitCode = ExitPartialFailure, exitCode)
    /\ pc' = "done"
    /\ UNCHANGED << inputs, process, unit, first, locals, filterTeamID, page,
                    allGuests, idx, exitCode, calls, origin >>

\* RunAudit after the guest loop: the summary and the return.
Summarize ==
    /\ pc = "guest"
    /\ idx > Len(allGuests)
    /\ result' = [result EXCEPT !.Summary = Summarized(result.Guests, @)]
    /\ Return(FALSE, exitCode)
    /\ pc' = "done"
    /\ UNCHANGED << inputs, process, unit, first, locals, filterTeamID, page,
                    allGuests, idx, exitCode, calls, origin >>

Next ==
    \/ SkipTeamFilter
    \/ ResolveTeamFilter
    \/ FetchPage
    \/ FetchTeams
    \/ FetchChannels
    \/ FetchLastPost
    \/ Summarize

Spec == Init /\ [][Next]_vars

\* ------------------------------------------------ pagination at full size

\* The i-th account of the long list.
PagedUser(i) == MkUser(i, 0, RecentMs)

InitPaging ==
    /\ guests \in { [ i \in 1..n |-> PagedUser(i) ] : n \in 0..MaxPagedGuests }
    /\ memberships = [ i \in 1..Len(guests) |-> <<Team1>> ]
    /\ teamFilter = ""
    /\ inactiveDays = 0
    /\ perPage = PerPage
    /\ flags = DefaultFlags
    /\ Start

NextPaging ==
    \/ SkipTeamFilter
    \/ FetchPage

SpecPaging == InitPaging /\ [][NextPaging]_vars

\* --------------------------------------------------- the process: main.run

\* The command lines of the runs of SpecRun.
FlagSets ==
    [ version : BOOLEAN,
      url : { "", "https://mm.example.com" },
      format : { "table", "csv", "json", "xml" },
      output : { "", "report.out" } ]

\* Error() of the errors NewClient returns: no credentials given, HTTP 401,
\* no response from the server, HTTP 500.
NoCredentialsError ==
    "error: authentication required. Use --token (or MM_TOKEN) for token auth, or --username (or MM_USERNAME) for password auth"
UnauthorizedError ==
    "error: authentication failed. Check your token or credentials"
ConnectError ==
    "error: unable to connect to https://mm.example.com. Check the URL and network connectivity"
ServerError ==
    "error: the Mattermost server returned an unexpected error (HTTP 500). Check server logs for details"

NewClientErrors ==
    { NoCredentialsError, UnauthorizedError, ConnectError, ServerError }

\* What run prints.
VersionLine == "mm-guest-audit dev"
UrlRequiredLine ==
    "error: server URL is required. Use --url or set the MM_URL environment variable."
InvalidFormatLine(format) ==
    "error: invalid format \"" \o format \o "\". Use table, csv, or json."
OutputFallbackLine(outputPath) ==
    "Warning: unable to write to \"" \o outputPath \o "\": permission denied - writing to stdout instead"
WriteFailedLine == "error: failed to write output: write failed"

\* The writer WriteOutput's switch selects.
WriterOf(format) ==
    CASE format = "csv" -> "writeCSV"
      [] format = "json" -> "writeJSON"
      [] OTHER -> "writeTable"

\* How writing the report to its destination can end: written whole and
\* nil returned; the write failed and the writer returned the error; the
\* write failed and the writer returned nil all the same (writeCSV does not
\* look at the error of its deferred Flush, writeTable not at those of the
\* summary lines).
WriteOutcomes == { "written", "failed", "lost" }

\* The runs of SpecRun: any command line, and a server with up to MaxGuests
\* guests, all members of both teams.
InitRun ==
    /\ flags \in FlagSets
    /\ guests \in { [ i \in 1..n |-> MkUser(i, ProfileOf(i, 0)[1], ProfileOf(i, 0)[2]) ] :
                      n \in 0..MaxGuests }
    /\ memberships = [ i \in 1..Len(guests) |-> <<Team1, Team2>> ]
    /\ teamFilter \in {"", TeamFilterName}
    /\ inactiveDays = 7
    /\ perPage = PageSize
    /\ pc = "main"
    /\ Fresh
    /\ unit = <<>>
    /\ first = <<>>

\* run up to the call of RunAudit: --version, the checks of --url and
\* --format, and NewClient.
ParseAndAuthenticate ==
    /\ pc = "main"
    /\ IF flags.version
       THEN /\ stdout' = Append(stdout, VersionLine)
            /\ exit' = <<ExitSuccess>>
            /\ pc' = "exited"
            /\ UNCHANGED stderr
       ELSE IF flags.url = ""
       THEN /\ stderr' = Append(stderr, UrlRequiredLine)
            /\ exit' = <<ExitConfigError>>
            /\ pc' = "exited"
            /\ UNCHANGED stdout
       ELSE IF flags.format \notin {"table", "csv", "json"}
       THEN /\ stderr' = Append(stderr, InvalidFormatLine(flags.format))
            /\ exit' = <<ExitConfigError>>
            /\ pc' = "exited"
            /\ UNCHANGED stdout
       ELSE \E err \in {""} \cup NewClientErrors :
              IF err # ""
              THEN /\ stderr' = Append(stderr, err)
                   /\ exit' = <<ExitConfigError>>
                   /\ pc' = "exited"
                   /\ UNCHANGED stdout
              ELSE /\ pc' = "resolve"
                   /\ UNCHANGED << exit, stdout, stderr >>
    /\ UNCHANGED << inputs, flags, file, unit, first, locals, filterTeamID, page,
                    allGuests, idx, result, exitCode, ret, calls, origin >>

\* run after RunAudit returned no result.
ExitWithoutResult ==
    /\ pc = "done"
    /\ ret[1].isNil
    /\ exit' = <<ret[1].code>>
    /\ pc' = "exited"
    /\ UNCHANGED << inputs, flags, stdout, stderr, file, unit, first, locals,
                    filterTeamID, page, allGuests, idx, result, exitCode, ret,
                    calls, origin >>

\* The document a writer leaves at its destination.
Document(outcome) ==
    [ writer |-> WriterOf(flags.format), guests |-> Len(result.Guests),
      complete |-> (outcome = "written") ]

\* Mutant of WriteOutput: a file that cannot be created is an error, and
\* nothing is written.
WriteOutputNoFallback ==
    /\ pc = "done"
    /\ ~ret[1].isNil
    /\ \E created \in BOOLEAN, outcome \in WriteOutcomes :
         LET toFile == flags.output # "" /\ created
             refused == flags.output # "" /\ ~created
             failed == refused \/ outcome = "failed"
         IN /\ stderr' = stderr \o (IF failed THEN <<WriteFailedLine>> ELSE <<>>)
            /\ file' = IF toFile THEN <<Document(outcome)>> ELSE file
            /\ stdout' = IF toFile \/ refused THEN stdout
                          ELSE Append(stdout, Document(outcome))
            /\ exit' = IF failed THEN <<ExitOutputError>> ELSE <<ret[1].code>>
    /\ pc' = "exited"
    /\ UNCHANGED << inputs, flags, unit, first, locals, filterTeamID, page, allGuests,
                    idx, result, exitCode, ret, calls, origin >>

\* Mutant of WriteOutput: run prints the error WriteOutput returns and
\* exits with RunAudit's code.
WriteOutputErrorNotFatal ==
    /\ pc = "done"
    /\ ~ret[1].isNil
    /\ \E created \in BOOLEAN, outcome \in WriteOutcomes :
         LET toFile == flags.output # "" /\ created
             refused == flags.output # "" /\ ~created
         IN /\ stderr' = stderr \o
                  (IF refused THEN <<OutputFallbackLine(flags.output)>> ELSE <<>>) \o
                  (IF outcome = "failed" THEN <<WriteFailedLine>> ELSE <<>>)
            /\ file' = IF toFile THEN <<Document(outcome)>> ELSE file
            /\ stdout' = IF toFile THEN stdout ELSE Append(stdout, Document(outcome))
            /\ exit' = <<ret[1].code>>
    /\ pc' = "exited"
    /\ UNCHANGED << inputs, flags, unit, first, locals, filterTeamID, page, allGuests,
                    idx, result, exitCode, ret, calls, origin >>

\* Mutant of WriteOutput: after an audit with failed lookups a write error
\* is reported but the exit code stays ExitPartialFailure.
WriteOutputKeepsPartialFailure ==
    /\ pc = "done"
    /\ ~ret[1].isNil
    /\ \E created \in BOOLEAN, outcome \in WriteOutcomes :
         LET toFile == flags.output # "" /\ created
             refused == flags.output # "" /\ ~created
         IN /\ stderr' = stderr \o
                  (IF refused THEN <<OutputFallbackLine(flags.output)>> ELSE <<>>) \o
                  (IF outcome = "failed" THEN <<WriteFailedLine>> ELSE <<>>)
            /\ file' = IF toFile THEN <<Document(outcome)>> ELSE file
            /\ stdout' = IF toFile THEN stdout ELSE Append(stdout, Document(outcome))
            /\ exit' = IF outcome = "failed" /\ ret[1].code # ExitPartialFailure
                        THEN <<ExitOutputError>>
                        ELSE <<ret[1].code>>
    /\ pc' = "exited"
    /\ UNCHANGED << inputs, flags, unit, first, locals, filterTeamID, page, allGuests,
                    idx, result, exitCode, ret, calls, origin >>

\* run after RunAudit returned a result: WriteOutput (os.Create of --output
\* with the fallback to stdout, the writer of the format) and the exit code.
WriteOutput ==
    /\ pc = "done"
    /\ ~ret[1].isNil
    /\ \E created \in BOOLEAN, outcome \in WriteOutcomes :
         LET toFile == flags.output # "" /\ created
             refused == flags.output # "" /\ ~created
         IN /\ stderr' = stderr \o
                  (IF refused THEN <<OutputFallbackLine(flags.output)>> ELSE <<>>) \o
                  (IF outcome = "failed" THEN <<WriteFailedLine>> ELSE <<>>)
            /\ file' = IF toFile THEN <<Document(outcome)>> ELSE file
            /\ stdout' = IF toFile THEN stdout ELSE Append(stdout, Document(outcome))
            /\ exit' = IF outcome = "failed" THEN <<ExitOutputError>>
                        ELSE <<ret[1].code>>
    /\ pc' = "exited"
    /\ UNCHANGED << inputs, flags, unit, first, locals, filterTeamID, page, allGuests,
                    idx, result, exitCode, ret, calls, origin >>

NextRun ==
    \/ ParseAndAuthenticate
    \/ SkipTeamFilter
    \/ ResolveTeamFilter
    \/ FetchPage
    \/ FetchTeams
    \/ FetchChannels
    \/ FetchLastPost
    \/ Summarize
    \/ ExitWithoutResult
    \/ WriteOutput

SpecRun == InitRun /\ [][NextRun]_vars

\* ------------------------------------------- functions applied on their own

\* The reference times IsInactiveAt is applied at: a midnight, and an
\* instant within a day.
NowChoices == { 10 * DayMs, 12 * DayMs + 45296789 }

\* Distances, in ms, of a last login from the cutoff instant.
CutoffOffsets == { -DayMs, -1000, -1, 0, 1, 1000, DayMs }

\* The last logins IsInactiveAt is applied to: none, the first instant
\* after the epoch, the reference time itself, and instants around the
\* cutoff of a threshold of |days| days.
LoginChoices(days, now) ==
    LET n == IF days < 0 THEN -days ELSE days
    IN { Nil, <<1>>, <<now>> } \cup { <<now - n * DayMs + o>> : o \in CutoffOffsets }

IsInactiveAtInputs ==
    UNION { { <<ll, d, now>> : ll \in LoginChoices(d, now) } :
              d \in (-1)..MaxThresholdDays, now \in NowChoices }

\* strings.Join.
RECURSIVE Join(_, _)
Join(elems, sep) ==
    IF elems = <<>> THEN ""
    ELSE IF Len(elems) = 1 THEN elems[1]
    ELSE elems[1] \o sep \o Join(Tail(elems), sep)

\* Mutant of formatChannelNamesTable: the marker counts one channel too
\* many.
formatChannelNamesTableMiscounts(chans) ==
    IF Len(chans) = 0 THEN ""
    ELSE LET shown == IF Len(chans) < MaxDisplay THEN Len(chans) ELSE MaxDisplay
             names == [ k \in 1..shown |-> chans[k].ChannelName ]
         IN IF Len(chans) > MaxDisplay
            THEN Join(names, ", ")
                   \o " (+" \o ToString(Len(chans) - MaxDisplay + 1) \o " more)"
            ELSE Join(names, ", ")

\* formatChannelNamesTable: the CHANNELS cell of writeTable.
formatChannelNamesTable(chans) ==
    IF Len(chans) = 0 THEN ""
    ELSE LET shown == IF Len(chans) < MaxDisplay THEN Len(chans) ELSE MaxDisplay
             names == [ k \in 1..shown |-> chans[k].ChannelName ]
         IN IF Len(chans) > MaxDisplay
            THEN Join(names, ", ")
                   \o " (+" \o ToString(Len(chans) - MaxDisplay) \o " more)"
            ELSE Join(names, ", ")

\* The channel lists formatChannelNamesTable is applied to.
ChannelInfoChoices ==
    { [TeamName |-> "Engineering", ChannelName |-> "general"],
      [TeamName |-> "Sales", ChannelName |-> "partners"] }

ChannelInfoLists == UNION { [1..n -> ChannelInfoChoices] : n \in 0..MaxChannels }

\* Mutant of classifyAPIErrorFromStatus: every status from 400 on that has
\* no message of its own is reported as a server error.
classifyAPIErrorFromStatusFrom400(url, statusCode) ==
    IF statusCode = 401
    THEN "error: authentication failed. Check your token or credentials"
    ELSE IF statusCode = 403
    THEN "error: permission denied. This operation requires a System Administrator account"
    ELSE IF statusCode = 404
    THEN "error: the requested resource was not found"
    ELSE IF statusCode >= 400
    THEN "error: the Mattermost server returned an unexpected error (HTTP "
           \o ToString(statusCode) \o "). Check server logs for details"
    ELSE "error: API request failed (HTTP " \o ToString(statusCode) \o ")"

\* classifyAPIErrorFromStatus: Error() of the error for an HTTP status, the
\* first case of the switch that matches.
classifyAPIErrorFromStatus(url, statusCode) ==
    IF statusCode = 401
    THEN "error: authentication failed. Check your token or credentials"
    ELSE IF statusCode = 403
    THEN "error: permission denied. This operation requires a System Administrator account"
    ELSE IF statusCode = 404
    THEN "error: the requested resource was not found"
    ELSE IF statusCode >= 500
    THEN "error: the Mattermost server returned an unexpected error (HTTP "
           \o ToString(statusCode) \o "). Check server logs for details"
    ELSE "error: API request failed (HTTP " \o ToString(statusCode) \o ")"

ClassifyAPIError(url, statusCode) == classifyAPIErrorFromStatus(url, statusCode)

\* classifyAPIError: resp is Nil or <<status>>, err the text of the
\* transport's error.
classifyAPIError(url, resp, err) ==
    IF resp = Nil
    THEN IF url # ""
         THEN "error: unable to connect to " \o url
                \o ". Check the URL and network connectivity"
         ELSE "error: API request failed: " \o err
    ELSE classifyAPIErrorFromStatus(url, resp[1])

\* The status codes ClassifyAPIError is applied to.
StatusCodes ==
    { -1, 0, 100, 200, 204, 302, 400, 401, 402, 403, 404, 405, 418, 429, 499,
      500, 501, 502, 503, 599, 600 }

\* CreateAt of a post: 0, or an instant in ms.
CreateAtChoices == { 0, OldMs, RecentMs }

\* posts.Posts of one search, in the order the loop visits them.
PostLists == UNION { [1..n -> CreateAtChoices] : n \in 0..MaxPosts }

\* What api.SearchPosts returns for one team: (posts, resp, err) with posts
\* Nil or <<the posts>>, resp Nil or <<status>>, err "" for nil.
SearchResponses ==
    { [posts |-> <<ps>>, resp |-> <<200>>, err |-> ""] : ps \in PostLists }
    \cup { [posts |-> Nil, resp |-> <<200>>, err |-> ""] }
    \cup { [posts |-> Nil, resp |-> <<c>>, err |-> "search failed"] : c \in {403, 404, 500} }
    \cup { [posts |-> Nil, resp |-> Nil, err |-> "connection refused"] }

TeamIDsOf(n) == [ k \in 1..n |-> "team" \o ToString(k) ]

\* The inner loop of GetLastPostDateForUser from the j-th post on.
RECURSIVE LatestOf(_, _, _)
LatestOf(posts, j, latestTime) ==
    IF j > Len(posts) THEN latestTime
    ELSE LET t == MillisToTime(posts[j])
         IN LatestOf(posts, j + 1,
                     IF t # Nil /\ (latestTime = Nil \/ t[1] > latestTime[1])
                     THEN t ELSE latestTime)

\* Mutant of SearchFrom: an error returns what the earlier teams yielded.
RECURSIVE SearchFromKeepsEarlier(_, _, _, _)
SearchFromKeepsEarlier(ids, responses, k, latestTime) ==
    IF k > Len(ids)
    THEN [time |-> latestTime, err |-> "", searched |-> ids]
    ELSE LET r == responses[k] IN
         IF r.err # ""
         THEN IF r.resp # Nil /\ r.resp[1] = 404
              THEN SearchFromKeepsEarlier(ids, responses, k + 1, latestTime)
              ELSE [time |-> latestTime, err |-> classifyAPIError("", r.resp, r.err),
                    searched |-> SubSeq(ids, 1, k)]
         ELSE IF r.posts = Nil
         THEN SearchFromKeepsEarlier(ids, responses, k + 1, latestTime)
         ELSE SearchFromKeepsEarlier(ids, responses, k + 1,
                                     LatestOf(r.posts[1], 1, latestTime))

\* The loop of mmClient.GetLastPostDateForUser from the k-th team on, the
\* search of the k-th team answered by responses[k]: the time and error
\* returned, and the teams searched, in the order searched.
RECURSIVE SearchFrom(_, _, _, _)
SearchFrom(ids, responses, k, latestTime) ==
    IF k > Len(ids)
    THEN [time |-> latestTime, err |-> "", searched |-> ids]
    ELSE LET r == responses[k] IN
         IF r.err # ""
         THEN IF r.resp # Nil /\ r.resp[1] = 404
              THEN SearchFrom(ids, responses, k + 1, latestTime)
              ELSE [time |-> Nil, err |-> classifyAPIError("", r.resp, r.err),
                    searched |-> SubSeq(ids, 1, k)]
         ELSE IF r.posts = Nil
         THEN SearchFrom(ids, responses, k + 1, latestTime)
         ELSE SearchFrom(ids, responses, k + 1, LatestOf(r.posts[1], 1, latestTime))

\* mmClient.GetLastPostDateForUser.
GetLastPostDateForUser(ids, responses) == SearchFrom(ids, responses, 1, Nil)

audit == << pc, filterTeamID, page, allGuests, idx, result, exitCode, ret,
            calls, origin >>

\* A process in which no audit runs: the function under test is applied to
\* the arguments in unit.
InitPure ==
    /\ \/ unit \in { [fn |-> "IsInactiveAt", args |-> a, out |-> <<>>] :
                       a \in IsInactiveAtInputs }
       \/ unit \in { [fn |-> "formatChannelNamesTable", args |-> <<chans>>, out |-> <<>>] :
                       chans \in ChannelInfoLists }
       \/ unit \in { [fn |-> "ClassifyAPIError", args |-> <<url, c>>, out |-> <<>>] :
                       url \in {"https://mm.example.com"}, c \in StatusCodes }
       \/ \E n \in 0..MaxTeams :
            unit \in { [fn |-> "GetLastPostDateForUser", args |-> <<TeamIDsOf(n), rs>>,
                        out |-> <<>>] : rs \in [1..n -> SearchResponses] }
    /\ guests = <<>>
    /\ memberships = <<>>
    /\ teamFilter = ""
    /\ inactiveDays = 0
    /\ perPage = PerPage
    /\ flags = DefaultFlags
    /\ pc = "unit"
    /\ Fresh
    /\ first = <<>>

ApplyIsInactiveAt ==
    /\ pc = "unit"
    /\ unit.fn = "IsInactiveAt"
    /\ unit.out = <<>>
    /\ unit' = [ unit EXCEPT
                   !.out = << IsInactiveAt(unit.args[1], unit.args[2], unit.args[3]) >> ]
    /\ UNCHANGED << inputs, process, locals, audit, first >>

ApplyFormatChannelNamesTable ==
    /\ pc = "unit"
    /\ unit.fn = "formatChannelNamesTable"
    /\ unit.out = <<>>
    /\ unit' = [ unit EXCEPT !.out = << formatChannelNamesTable(unit.args[1]) >> ]
    /\ UNCHANGED << inputs, process, locals, audit, first >>

ApplyClassifyAPIError ==
    /\ pc = "unit"
    /\ unit.fn = "ClassifyAPIError"
    /\ unit.out = <<>>
    /\ unit' = [ unit EXCEPT !.out = << ClassifyAPIError(unit.args[1], unit.args[2]) >> ]
    /\ UNCHANGED << inputs, process, locals, audit, first >>

ApplyGetLastPostDateForUser ==
    /\ pc = "unit"
    /\ unit.fn = "GetLastPostDateForUser"
    /\ unit.out = <<>>
    /\ unit' = [ unit EXCEPT
                   !.out = << GetLastPostDateForUser(unit.args[1], unit.args[2]) >> ]
    /\ UNCHANGED << inputs, process, locals, audit, first >>

NextPure ==
    \/ ApplyIsInactiveAt
    \/ ApplyFormatChannelNamesTable
    \/ ApplyClassifyAPIError
    \/ ApplyGetLastPostDateForUser

SpecPure == InitPure /\ [][NextPure]_vars

\* ------------------------------------------------------ a run to its end

\* The runs of SpecLive: those of Spec at one threshold, with pages of
\* PageSize and of PageSize + 1 users, so that a list ends on an empty page
\* or on a short one.
InitLive ==
    /\ guests \in { [ i \in 1..n |-> MkUser(i, ProfileOf(i, 0)[1], ProfileOf(i, 0)[2]) ] :
                      n \in 0..MaxGuests }
    /\ memberships \in [1..Len(guests) -> TeamLists]
    /\ teamFilter \in {"", TeamFilterName}
    /\ inactiveDays = 7
    /\ perPage \in {PageSize, PageSize + 1}
    /\ flags = DefaultFlags
    /\ Start

\* RunAudit is sequential code and every call of the port returns: as long
\* as the run has a next step, it takes it.
SpecLive == InitLive /\ [][Next]_vars /\ WF_vars(Next)

\* ------------------------------------------------- two runs, one server

\* The runs of SpecPair: RunAudit is called twice in one process, with the
\* same client, filter, threshold and clock, over the same guests of the
\* server, which answers each call of either run as it likes.
InitPair ==
    /\ guests \in { [ i \in 1..n |-> MkUser(i, ProfileOf(i, 0)[1], ProfileOf(i, 0)[2]) ] :
                      n \in 0..MaxGuests }
    /\ memberships = [ i \in 1..Len(guests) |-> <<Team1, Team2>> ]
    /\ teamFilter \in {"", TeamFilterName}
    /\ inactiveDays = 7
    /\ perPage = PageSize
    /\ flags = DefaultFlags
    /\ Start

\* The caller keeps what the first RunAudit did and returned, and calls
\* RunAudit again: its locals are new, the arguments are the same.
RunAgain ==
    /\ pc = "done"
    /\ first = <<>>
    /\ first' = << [ calls |-> calls, result |-> result, ret |-> ret[1],
                     origin |-> origin ] >>
    /\ pc' = "resolve"
    /\ filterTeamID' = ""
    /\ page' = 0
    /\ allGuests' = <<>>
    /\ idx' = 1
    /\ result' = [Guests |-> <<>>, Summary |-> EmptySummary, InactiveDays |-> inactiveDays]
    /\ exitCode' = ExitSuccess
    /\ ret' = <<>>
    /\ calls' = <<>>
    /\ origin' = <<>>
    /\ UNCHANGED << inputs, process, unit, locals >>

NextPair ==
    \/ SkipTeamFilter
    \/ ResolveTeamFilter
    \/ FetchPage
    \/ FetchTeams
    \/ FetchChannels
    \/ FetchLastPost
    \/ Summarize
    \/ RunAgain

SpecPair == InitPair /\ [][NextPair]_vars

\* The function fn was applied and returned.
Applied(fn) == pc = "unit" /\ unit.fn = fn /\ unit.out # <<>>

\* ------------------------------------------------------- reading the run

Returned == ret # <<>>
HasResult == Returned /\ ~ret[1].isNil
NoResult == Returned /\ ret[1].isNil
Outcome == ret[1].code

PerGuestOps ==
    { "GetTeamsForUser", "GetChannelsForTeamForUser", "GetLastPostDateForUser" }

\* The call numbers of the failed calls of op for the i-th listed guest.
FailedCallsFor(op, i) ==
    { k \in 1..Len(calls) :
        calls[k].op = op /\ calls[k].user = guests[i].Id /\ calls[k].err # "" }

TeamFetchFailed(i) == FailedCallsFor("GetTeamsForUser", i) # {}
ChannelFetchFailed(i) == FailedCallsFor("GetChannelsForTeamForUser", i) # {}
LastPostFailed(i) == FailedCallsFor("GetLastPostDateForUser", i) # {}

Listed == 1..Len(guests)
TeamFailures == { i \in Listed : TeamFetchFailed(i) }
ChannelFailures == { i \in Listed : ChannelFetchFailed(i) }

\* The positions in result.Guests of the records of the i-th listed guest.
RecordsOf(i) == { k \in 1..Len(origin) : origin[k] = i }

IsMember(i, teamID) == \E k \in 1..Len(memberships[i]) : memberships[i][k].Id = teamID

ErrorRecords == { k \in 1..Len(result.Guests) : result.Guests[k].Error # "" }
CleanRecords == { k \in 1..Len(result.Guests) : result.Guests[k].Error = "" }

\* What the claims expect of a record, stated from the account and the
\* port's data.
ExpTime(ms) == IF ms = 0 THEN <<>> ELSE <<ms>>

ExpDisplayName(u) ==
    IF u.FirstName # "" /\ u.LastName # "" THEN u.FirstName \o " " \o u.LastName
    ELSE IF u.FirstName # "" THEN u.FirstName
    ELSE u.LastName

InScope(t) == filterTeamID = "" \/ t.Id = filterTeamID

ExpTeams(i) ==
    LET ts == SelectSeq(memberships[i], InScope)
    IN [ k \in 1..Len(ts) |-> [ID |-> ts[k].Id, DisplayName |-> ts[k].DisplayName] ]

RECURSIVE ExpChannelsOf(_, _)
ExpChannelsOf(ts, userID) ==
    IF ts = <<>> THEN <<>>
    ELSE LET chs == PortChannels(ts[1].ID, userID)
         IN [ k \in 1..Len(chs) |->
                [TeamName |-> ts[1].DisplayName, ChannelName |-> chs[k].DisplayName] ]
            \o ExpChannelsOf(Tail(ts), userID)

ExpChannels(i) == ExpChannelsOf(ExpTeams(i), guests[i].Id)

ExpInactive(u) ==
    /\ inactiveDays > 0
    /\ \/ u.LastActivityAt = 0
       \/ u.LastActivityAt < NowMs - inactiveDays * DayMs

\* The identity part of a record: username, display name, email, creation
\* time and the enabled flag.
IdentityOf(r, u) ==
    /\ r.Username = u.Username
    /\ r.DisplayName = ExpDisplayName(u)
    /\ r.Email = u.Email
    /\ r.CreatedAt = ExpTime(u.CreateAt)
    /\ r.Active = (u.DeleteAt = 0)

\* A stub: nothing but the identity part and an error.
IsStub(r, u) ==
    /\ IdentityOf(r, u)
    /\ r.Error # ""
    /\ r.Teams = <<>>
    /\ r.Channels = <<>>
    /\ r.LastLogin = <<>>
    /\ r.LastPost = <<>>
    /\ r.Inactive = FALSE

\* ------------------------------------------------------------------ claims

\* C1: whenever RunAudit returns a result, whatever the port answered and
\* with or without a team filter, Summary.TotalGuests equals ActiveGuests +
\* InactiveGuests + DeactivatedGuests + FailedLookups.
C1_SummaryAddsUp ==
    HasResult =>
        LET s == result.Summary
        IN s.TotalGuests =
             s.ActiveGuests + s.InactiveGuests + s.DeactivatedGuests + s.FailedLookups

\* A result of two records, one of a failed lookup and one of a deactivated
\* guest.
C1_Witness ==
    /\ HasResult
    /\ result.Summary.FailedLookups = 1
    /\ result.Summary.DeactivatedGuests = 1
    /\ result.Summary.TotalGuests = 2

\* C2 as claimed: with no team filter, when the team fetch failed for k >= 1
\* of the N listed guests, the run returns a result with N records, each
\* failed guest has a record with a non-empty Error, FailedLookups = k and
\* the outcome is ExitPartialFailure.
C2_AsClaimed ==
    (Returned /\ teamFilter = "" /\ TeamFailures # {}) =>
        /\ HasResult
        /\ Len(result.Guests) = Len(guests)
        /\ \A i \in TeamFailures :
             \E k \in RecordsOf(i) : result.Guests[k].Error # ""
        /\ result.Summary.FailedLookups = Cardinality(TeamFailures)
        /\ Outcome = ExitPartialFailure

\* C2 amended: as claimed, except that FailedLookups is k plus the number of
\* guests whose channel fetch failed.
C2_PartialFailureKeepsEveryGuest ==
    (Returned /\ teamFilter = "" /\ TeamFailures # {}) =>
        /\ HasResult
        /\ Len(result.Guests) = Len(guests)
        /\ \A i \in TeamFailures :
             \E k \in RecordsOf(i) : result.Guests[k].Error # ""
        /\ result.Summary.FailedLookups =
             Cardinality(TeamFailures) + Cardinality(ChannelFailures)
        /\ Outcome = ExitPartialFailure

\* The scenario of TestRunAudit_PartialFailure: two guests, the team fetch of
\* the second fails, nothing else does.
C2_Witness ==
    /\ Returned
    /\ teamFilter = ""
    /\ Len(guests) = 2
    /\ TeamFailures = {2}
    /\ ChannelFailures = {}
    /\ result.Summary.FailedLookups = 1

C4_GuestListFailureAborts ==
    \A k \in 1..Len(calls) :
        (calls[k].op = "GetGuestUsers" /\ calls[k].err # "") =>
            /\ k = Len(calls)
            /\ NoResult
            /\ Outcome = ExitAPIError
            /\ result.Guests = <<>>
            /\ \A j \in 1..Len(calls) : calls[j].op \notin PerGuestOps

\* The second page fails after a full first page was accumulated.
C4_Witness ==
    /\ NoResult
    /\ Len(allGuests) = perPage
    /\ calls[Len(calls)].op = "GetGuestUsers"
    /\ calls[Len(calls)].page = 1
    /\ calls[Len(calls)].err # ""

\* The number of users of the page with index pg of a list of n users.
PageLen(n, pg) ==
    LET left == n - pg * PerPage
    IN IF left <= 0 THEN 0 ELSE IF left > PerPage THEN PerPage ELSE left

\* C5: against a port serving a fixed list of N guests, GetGuestUsers is
\* called with page 0, 1, 2, ... in order and page size 200; the loop ends
\* after the first page with fewer than 200 users, having accumulated each
\* of the N guests once, in floor(N / 200) + 1 fetches.
C5_PaginationFetchesEveryPageOnce ==
    /\ \A k \in 1..Len(calls) :
         /\ calls[k].op = "GetGuestUsers"
         /\ calls[k].page = k - 1
         /\ calls[k].perPage = 200
    /\ pc = "guest" =>
         /\ Len(calls) = (Len(guests) \div 200) + 1
         /\ allGuests = guests
         /\ \A k \in 1..(Len(calls) - 1) : PageLen(Len(guests), k - 1) = 200
         /\ PageLen(Len(guests), Len(calls) - 1) < 200

\* 250 guests are collected in two fetches.
C5_Witness ==
    /\ pc = "guest"
    /\ Len(guests) = 250
    /\ Len(allGuests) = 250
    /\ Len(calls) = 2

PastPagination ==
    /\ pc \notin {"resolve", "paginate"}
    /\ \E k \in 1..Len(calls) : calls[k].op = "GetGuestUsers"
    /\ \A k \in 1..Len(calls) : calls[k].op \in {"GetGuestUsers", "GetTeamByName"} => calls[k].err = ""

\* C7: a run that got past team resolution and pagination returns a result,
\* with ExitPartialFailure when FailedLookups > 0 and ExitSuccess otherwise.
C7_OutcomeFollowsFailedLookups ==
    (Returned /\ PastPagination) =>
        /\ HasResult
        /\ \/ Outcome = ExitPartialFailure /\ result.Summary.FailedLookups > 0
           \/ Outcome = ExitSuccess /\ result.Summary.FailedLookups = 0

\* A run in which both guests failed.
C7_Witness ==
    /\ Returned
    /\ PastPagination
    /\ result.Summary.FailedLookups = 2
    /\ Outcome = ExitPartialFailure

\* C8: a guest whose last-post lookup failed has a complete record: its
\* teams in scope, their channels, its last login and inactivity flag, no
\* LastPost and no Error; FailedLookups counts the guests whose team or
\* channel fetch failed and nothing else, and the exit code is
\* ExitPartialFailure only when there is such a guest.
C8_LastPostFailureIsNonFatal ==
    /\ \A i \in Listed :
         LastPostFailed(i) =>
            /\ Cardinality(RecordsOf(i)) = 1
            /\ \A k \in RecordsOf(i) :
                 LET r == result.Guests[k]
                     u == guests[i]
                 IN /\ IdentityOf(r, u)
                    /\ r.Error = ""
                    /\ r.LastPost = <<>>
                    /\ r.Teams = ExpTeams(i)
                    /\ Len(r.Teams) > 0
                    /\ r.Channels = ExpChannels(i)
                    /\ r.LastLogin = ExpTime(u.LastActivityAt)
                    /\ r.Inactive = ExpInactive(u)
    /\ result.Summary.FailedLookups = Cardinality(TeamFailures \cup ChannelFailures)
    /\ exitCode = IF TeamFailures \cup ChannelFailures = {}
                  THEN ExitSuccess ELSE ExitPartialFailure

\* The only failure of a run is a last-post lookup of a guest in two teams,
\* and the run succeeds.
C8_Witness ==
    /\ HasResult
    /\ Outcome = ExitSuccess
    /\ Len(guests) = 2
    /\ Len(result.Guests) = 2
    /\ LastPostFailed(2)
    /\ ~LastPostFailed(1)
    /\ Len(result.Guests[2].Teams) = 2
    /\ result.Guests[2].Inactive
    /\ result.Guests[1].LastPost # <<>>

\* C9: a guest for whom a channel fetch failed is treated as one whose
\* team fetch failed is: the failed call is the last one made for the
\* guest, the guest has one record, a stub carrying the error, FailedLookups
\* counts the guest once, and the loop goes on: a returned result has seen
\* the team fetch of every listed guest.
C9_ChannelFailureLikeTeamFailure ==
    /\ \A op \in {"GetChannelsForTeamForUser", "GetTeamsForUser"} :
         \A i \in Listed :
            FailedCallsFor(op, i) # {} =>
               /\ \A k \in FailedCallsFor(op, i) :
                    \A j \in (k + 1)..Len(calls) : calls[j].user # guests[i].Id
               /\ idx > i
               /\ Cardinality(RecordsOf(i)) = 1
               /\ \A k \in RecordsOf(i) : IsStub(result.Guests[k], guests[i])
    /\ result.Summary.FailedLookups = Cardinality(TeamFailures) + Cardinality(ChannelFailures)
    /\ HasResult =>
         \A i \in Listed :
            \E k \in 1..Len(calls) :
               calls[k].op = "GetTeamsForUser" /\ calls[k].user = guests[i].Id

\* The channel fetch of the first guest's second team fails, and the second
\* guest is enriched all the same.
C9_Witness ==
    /\ HasResult
    /\ Len(guests) = 2
    /\ ChannelFetchFailed(1)
    /\ \E k \in FailedCallsFor("GetChannelsForTeamForUser", 1) : calls[k].team = "team2"
    /\ Len(memberships[1]) = 2
    /\ Len(result.Guests) = 2
    /\ result.Guests[2].Error = ""
    /\ result.Summary.FailedLookups = 1

\* C10: in every result a record with a non-empty Error is a stub: no
\* teams, no channels, no LastLogin, no LastPost, Inactive false, and the
\* username, display name, email, creation time and enabled flag of the
\* account, also when teams and channels had been fetched before the
\* failure.
C10_ErrorRecordIsStub ==
    \A k \in ErrorRecords :
        LET r == result.Guests[k]
            u == allGuests[origin[k]]
        IN /\ IsStub(r, u)
           /\ u = guests[origin[k]]

\* A stub of an enabled guest with an old login, with flagging on, whose
\* second team's channel fetch failed after the first team's channels were
\* read: the full record would have had a LastLogin and Inactive set.
C10_Witness ==
    /\ HasResult
    /\ inactiveDays > 0
    /\ \E k \in ErrorRecords :
         /\ \E c \in FailedCallsFor("GetChannelsForTeamForUser", origin[k]) :
              calls[c].team = "team2"
         /\ Len(memberships[origin[k]]) = 2
         /\ guests[origin[k]].DeleteAt = 0
         /\ guests[origin[k]].LastActivityAt # 0
         /\ ExpInactive(guests[origin[k]])

\* The concatenation of the pages the first k calls fetched.
RECURSIVE FetchedPages(_)
FetchedPages(k) ==
    IF k = 0 THEN <<>>
    ELSE FetchedPages(k - 1) \o
         (IF calls[k].op = "GetGuestUsers" /\ calls[k].err = ""
          THEN PortGuestPage(calls[k].page, calls[k].perPage)
          ELSE <<>>)

\* C11: the records of result.Guests are a subsequence of the concatenation
\* of the fetched pages (page 0 first, each page in the order returned):
\* there is a strictly increasing map from the records to the fetched
\* accounts under which every record carries its account's username; and no
\* listed guest has more than one record, whichever guests failed or were
\* skipped by the team filter.
C11_RecordsInPaginationOrder ==
    LET fetched == FetchedPages(Len(calls))
        gs == result.Guests
    IN /\ \E f \in [1..Len(gs) -> 1..Len(fetched)] :
            /\ \A k \in 1..Len(gs) : gs[k].Username = fetched[f[k]].Username
            /\ \A j, k \in 1..Len(gs) : j < k => f[j] < f[k]
       /\ \A i \in Listed :
            Cardinality({ k \in 1..Len(gs) : gs[k].Username = guests[i].Username }) <= 1

\* A result with the records of two guests from two different pages, the
\* first of a failed guest, the second complete.
C11_Witness ==
    /\ HasResult
    /\ Len(result.Guests) = 2
    /\ \E k \in 1..Len(calls) :
         calls[k].op = "GetGuestUsers" /\ calls[k].page = 1 /\ calls[k].err = ""
            /\ PortGuestPage(1, calls[k].perPage) # <<>>
    /\ result.Guests[1].Username = guests[1].Username
    /\ result.Guests[1].Error # ""
    /\ result.Guests[2].Username = guests[2].Username
    /\ result.Guests[2].Error = ""

\* C12: in a returned result the deactivated count is the number of records
\* without an Error whose Active is false (whatever their Inactive), the
\* inactive count the number of those with Active and Inactive both true,
\* the active count the number of those with Active true and Inactive
\* false; a record with an Error is in none of the three.
C12_BucketPrecedence ==
    HasResult =>
        LET gs == result.Guests
            s == result.Summary
        IN /\ s.DeactivatedGuests =
                Cardinality({ k \in CleanRecords : ~gs[k].Active })
           /\ s.InactiveGuests =
                Cardinality({ k \in CleanRecords : gs[k].Active /\ gs[k].Inactive })
           /\ s.ActiveGuests =
                Cardinality({ k \in CleanRecords : gs[k].Active /\ ~gs[k].Inactive })
           /\ s.DeactivatedGuests + s.InactiveGuests + s.ActiveGuests
                = Len(gs) - Cardinality(ErrorRecords)

\* A deactivated guest whose record is also flagged inactive counts as
\* deactivated only, beside an enabled guest whose lookup failed.
C12_Witness ==
    /\ HasResult
    /\ Len(result.Guests) = 2
    /\ result.Guests[1].Error = ""
    /\ ~result.Guests[1].Active
    /\ result.Guests[1].Inactive
    /\ result.Guests[2].Error # ""
    /\ result.Guests[2].Active
    /\ result.Summary.DeactivatedGuests = 1
    /\ result.Summary.InactiveGuests = 0
    /\ result.Summary.ActiveGuests = 0

\* C13: for a threshold of d > 0 days and any reference time now,
\* IsInactiveAt returns true when lastLogin is absent, and otherwise true
\* exactly when lastLogin is strictly earlier than now minus d days: false
\* for a login exactly d days before now, true for one a second earlier.
C13_InactiveStrictlyBeforeCutoff ==
    (Applied("IsInactiveAt") /\ unit.args[2] > 0) =>
        LET lastLogin == unit.args[1]
            cutoff == unit.args[3] - unit.args[2] * 24 * 60 * 60 * 1000
            inactive == unit.out[1]
        IN /\ lastLogin = <<>> => inactive
           /\ lastLogin # <<>> => (inactive <=> lastLogin[1] < cutoff)
           /\ lastLogin = <<cutoff>> => ~inactive
           /\ lastLogin = <<cutoff - 1000>> => inactive

\* A login exactly three days before a reference time within a day, under
\* a threshold of three days, was classified as not inactive.
C13_Witness ==
    /\ Applied("IsInactiveAt")
    /\ unit.args[2] = 3
    /\ unit.args[3] % (24 * 60 * 60 * 1000) # 0
    /\ unit.args[1] = << unit.args[3] - 3 * 24 * 60 * 60 * 1000 >>
    /\ unit.out = <<FALSE>>

\* C14: with inactiveDays <= 0 nobody is marked inactive: IsInactive
\* returns false for every lastLogin, absent or old, every record of the
\* result has Inactive false, and Summary.InactiveGuests is 0.
C14_DisabledFlaggingMarksNobody ==
    inactiveDays <= 0 =>
        /\ \A lastLogin \in LoginChoices(inactiveDays, NowMs) \cup { <<OldMs>> } :
             ~IsInactive(lastLogin, inactiveDays)
        /\ \A k \in 1..Len(result.Guests) : ~result.Guests[k].Inactive
        /\ result.Summary.InactiveGuests = 0

\* A result, under a negative threshold, with the records of an enabled
\* guest who never logged in and of one whose last login is old.
C14_Witness ==
    /\ HasResult
    /\ inactiveDays < 0
    /\ Len(result.Guests) = 2
    /\ \A k \in 1..2 : result.Guests[k].Error = "" /\ result.Guests[k].Active
    /\ result.Guests[1].LastLogin = <<>>
    /\ result.Guests[2].LastLogin = <<OldMs>>
    /\ result.Summary.ActiveGuests = 2

\* The operations of the MattermostClient port, all of them reads.
ReadOps ==
    { "GetGuestUsers", "GetTeamByName", "GetTeamsForUser",
      "GetChannelsForTeamForUser", "GetLastPostDateForUser" }

\* C15: no step of a run, whatever its outcome, calls the port with
\* anything but one of its five read operations, and no step changes the
\* server's accounts or their team memberships (the channels of a team
\* member, PortChannels, are not state).
C15_ReadOnly ==
    [][ /\ guests' = guests
        /\ memberships' = memberships
        /\ \A k \in 1..Len(calls') : calls'[k].op \in ReadOps ]_vars

\* A run that returned a result after calling each of the five operations,
\* with a guest flagged inactive in the result.
C15_Witness ==
    /\ HasResult
    /\ \A op \in ReadOps : \E k \in 1..Len(calls) : calls[k].op = op
    /\ \E k \in 1..Len(result.Guests) : result.Guests[k].Inactive

\* The process has exited.
Exited == pc = "exited"

\* The process wrote line to stderr.
Wrote(line) == \E k \in 1..Len(stderr) : stderr[k] = line

\* --output was given and the file was not created.
OutputRefused == Exited /\ HasResult /\ flags.output # "" /\ file = <<>>

FailedOnTransport ==
    /\ Exited
    /\ \/ Wrote(ConnectError)
       \/ Wrote(ServerError)
       \/ \E k \in 1..Len(calls) :
            /\ calls[k].op \in {"GetTeamByName", "GetGuestUsers"}
            /\ calls[k].err \in PortErrors

\* C18 as claimed: a run that fails because the server cannot be reached or
\* the API returns an unexpected response, at whatever stage, exits with
\* ExitAPIError.
C18_AsClaimed ==
    FailedOnTransport => exit = <<ExitAPIError>>

\* C19: the channels cell of the table for a guest with n channels is empty
\* for n = 0, the name of the channel for n = 1, the two names in record
\* order separated by ", " for n = 2, and for n > 2 the first two names
\* followed by " (+k more)" with k = n - 2.
C19_ChannelsCellTruncation ==
    Applied("formatChannelNamesTable") =>
        LET chans == unit.args[1]
            n == Len(chans)
            cell == unit.out[1]
        IN /\ n = 0 => cell = ""
           /\ n = 1 => cell = chans[1].ChannelName
           /\ n = 2 => cell = chans[1].ChannelName \o ", " \o chans[2].ChannelName
           /\ n > 2 =>
                cell = chans[1].ChannelName \o ", " \o chans[2].ChannelName
                         \o " (+" \o ToString(n - 2) \o " more)"

\* Four channels, the third unlike the first two: the cell names the first
\* two and counts two more.
C19_Witness ==
    /\ Applied("formatChannelNamesTable")
    /\ Len(unit.args[1]) = 4
    /\ unit.args[1][3].ChannelName = "general"
    /\ unit.out = << "partners, partners (+2 more)" >>

\* The index in the guest list of the guest a per-guest call is about.
GuestOfCall(k) == CHOOSE i \in Listed : guests[i].Id = calls[k].user

\* The calls made for the i-th listed guest, in the order made.
CallsFor(i) ==
    SelectSeq(calls, LAMBDA c : c.op \in PerGuestOps /\ c.user = guests[i].Id)

\* C20: the per-guest calls are made guest by guest in pagination order (no
\* call for a guest after a call for a later one), and the calls for one
\* guest are: GetTeamsForUser, once and first; then
\* GetChannelsForTeamForUser for the teams in scope in membership order,
\* one call per team, up to the first that fails; then at most one
\* GetLastPostDateForUser, made only when every one of those succeeded and
\* there is a team in scope, with the teams in that order.  A guest the loop
\* is done with has had all of them unless a call failed.
C20_CallsInStrictOrder ==
    /\ \A j, k \in 1..Len(calls) :
         (j < k /\ calls[j].op \in PerGuestOps /\ calls[k].op \in PerGuestOps) =>
            GuestOfCall(j) <= GuestOfCall(k)
    /\ \A k \in 1..Len(calls) :
         calls[k].op \in PerGuestOps =>
            /\ \E i \in Listed : guests[i].Id = calls[k].user
            /\ \A j \in 1..k : calls[j].op \in {"GetTeamByName", "GetGuestUsers"} =>
                  calls[j].err = ""
    /\ \A i \in Listed :
         LET cs == CallsFor(i)
             n == Len(cs)
             exp == ExpTeams(i)
             m == Cardinality({ k \in 1..n : cs[k].op = "GetChannelsForTeamForUser" })
         IN /\ n > 0 =>
                 /\ cs[1].op = "GetTeamsForUser"
                 /\ cs[1].err # "" => n = 1
                 /\ m <= Len(exp)
                 /\ \A k \in 1..m :
                      /\ cs[k + 1].op = "GetChannelsForTeamForUser"
                      /\ cs[k + 1].team = exp[k].ID
                      /\ cs[k + 1].err # "" => n = k + 1
                 /\ n <= m + 2
                 /\ n = m + 2 =>
                      /\ cs[n].op = "GetLastPostDateForUser"
                      /\ m = Len(exp)
                      /\ m > 0
                      /\ cs[n].teams = [ k \in 1..m |-> exp[k].ID ]
            /\ (pc \in {"guest", "done"} /\ idx > i) =>
                 /\ n > 0
                 /\ (\A k \in 1..n : cs[k].err = "" \/ (k = n /\ n = m + 2)) =>
                      /\ m = Len(exp)
                      /\ n = IF m = 0 THEN 1 ELSE m + 2

\* The first guest, in two teams, had its teams, the channels of the first
\* team, those of the second and its last post fetched, in that order, and
\* only then the second guest's calls were made.
C20_Witness ==
    /\ HasResult
    /\ Len(guests) = 2
    /\ filterTeamID = ""
    /\ Len(CallsFor(1)) = 4
    /\ CallsFor(1)[2].team = "team1"
    /\ CallsFor(1)[3].team = "team2"
    /\ CallsFor(1)[4].op = "GetLastPostDateForUser"
    /\ Len(CallsFor(2)) > 1

\* The call numbers of the calls of an operation among ops.
CallsOf(ops) == { k \in 1..Len(calls) : calls[k].op \in ops }

\* C21: GetTeamByName is called at most once, only with a team filter, and
\* before any other call; every GetGuestUsers call comes before every
\* per-guest call, and when a per-guest call is made the pagination is
\* over: the last page fetched was short and no listing failed.
C21_ResolveThenPaginateThenEnrich ==
    /\ Cardinality(CallsOf({"GetTeamByName"})) <= 1
    /\ CallsOf({"GetTeamByName"}) # {} => teamFilter # ""
    /\ \A t \in CallsOf({"GetTeamByName"}) : t = 1
    /\ \A g \in CallsOf({"GetGuestUsers"}) : \A e \in CallsOf(PerGuestOps) : g < e
    /\ CallsOf(PerGuestOps) # {} =>
         /\ CallsOf({"GetGuestUsers"}) # {}
         /\ \A g \in CallsOf({"GetGuestUsers"}) : calls[g].err = ""
         /\ \E g \in CallsOf({"GetGuestUsers"}) :
              /\ \A h \in CallsOf({"GetGuestUsers"}) : h <= g
              /\ Len(PortGuestPage(calls[g].page, calls[g].perPage)) < calls[g].perPage
         /\ allGuests = guests

\* A filtered run over two guests: the team lookup, three page fetches, and
\* then the calls for the guests.
C21_Witness ==
    /\ HasResult
    /\ teamFilter # ""
    /\ Len(guests) = 2
    /\ Len(calls) >= 6
    /\ calls[1].op = "GetTeamByName"
    /\ \A k \in 2..4 : calls[k].op = "GetGuestUsers"
    /\ \A k \in 5..Len(calls) : calls[k].op \in PerGuestOps

\* C22: no GetLastPostDateForUser call is made for a guest with no team in
\* scope; with no team filter, a guest whose team list came back empty has
\* one record, without an Error, with no Teams, no Channels and no
\* LastPost, and a returned result counts it in the total and in the one of
\* the three buckets its flags select.
C22_TeamlessGuestKeepsRecord ==
    /\ \A i \in Listed :
         ExpTeams(i) = <<>> =>
            \A k \in 1..Len(calls) :
               (calls[k].user = guests[i].Id) => calls[k].op = "GetTeamsForUser"
    /\ \A i \in Listed :
         (teamFilter = "" /\ memberships[i] = <<>> /\ ~TeamFetchFailed(i)
            /\ pc \in {"guest", "done"} /\ idx > i) =>
            /\ Cardinality(RecordsOf(i)) = 1
            /\ \A k \in RecordsOf(i) :
                 LET r == result.Guests[k]
                 IN /\ r.Username = guests[i].Username
                    /\ r.Error = ""
                    /\ r.Teams = <<>>
                    /\ r.Channels = <<>>
                    /\ r.LastPost = <<>>
            /\ HasResult =>
                 LET s == result.Summary
                     gs == result.Guests
                     others == { k \in CleanRecords : origin[k] # i }
                     u == guests[i]
                 IN /\ s.TotalGuests = Len(gs)
                    /\ s.DeactivatedGuests =
                         Cardinality({ k \in others : ~gs[k].Active })
                           + (IF u.DeleteAt # 0 THEN 1 ELSE 0)
                    /\ s.InactiveGuests =
                         Cardinality({ k \in others : gs[k].Active /\ gs[k].Inactive })
                           + (IF u.DeleteAt = 0 /\ ExpInactive(u) THEN 1 ELSE 0)
                    /\ s.ActiveGuests =
                         Cardinality({ k \in others : gs[k].Active /\ ~gs[k].Inactive })
                           + (IF u.DeleteAt = 0 /\ ~ExpInactive(u) THEN 1 ELSE 0)

\* An unfiltered run whose only guest is in no team: one call, one record,
\* counted as inactive.
C22_Witness ==
    /\ HasResult
    /\ teamFilter = ""
    /\ Len(guests) = 1
    /\ memberships[1] = <<>>
    /\ Cardinality(CallsOf(PerGuestOps)) = 1
    /\ Len(result.Guests) = 1
    /\ result.Guests[1].Error = ""
    /\ result.Summary.TotalGuests = 1
    /\ result.Summary.InactiveGuests = 1

\* C23: under a team filter, every GetChannelsForTeamForUser call is for the
\* resolved team and every GetLastPostDateForUser call is given that team
\* alone; a record without an Error names that team alone, with the
\* channels the guest has in it, whatever other teams the guest is in.
C23_FilterScopesCallsAndRecords ==
    filterTeamID # "" =>
        /\ filterTeamID = FilterTeam.Id
        /\ \A k \in 1..Len(calls) :
             /\ calls[k].op = "GetChannelsForTeamForUser" =>
                  calls[k].team = filterTeamID
             /\ calls[k].op = "GetLastPostDateForUser" =>
                  calls[k].teams = <<filterTeamID>>
        /\ \A i \in Listed :
             Cardinality({ k \in 1..Len(calls) :
                             calls[k].op = "GetChannelsForTeamForUser"
                               /\ calls[k].user = guests[i].Id }) <= 1
        /\ \A k \in CleanRecords :
             LET r == result.Guests[k]
                 chs == PortChannels(filterTeamID, guests[origin[k]].Id)
             IN /\ r.Teams = << [ID |-> filterTeamID, DisplayName |-> FilterTeam.DisplayName] >>
                /\ r.Channels =
                     [ c \in 1..Len(chs) |->
                         [ TeamName |-> FilterTeam.DisplayName,
                           ChannelName |-> chs[c].DisplayName ] ]

\* A filtered run over a guest of both teams: one channel fetch, for the
\* filter team, and a record naming that team alone.
C23_Witness ==
    /\ HasResult
    /\ filterTeamID # ""
    /\ Len(guests) = 1
    /\ memberships[1] = <<Team1, Team2>>
    /\ Cardinality(CallsOf({"GetChannelsForTeamForUser"})) = 1
    /\ Cardinality(CallsOf({"GetLastPostDateForUser"})) = 1
    /\ Len(result.Guests) = 1
    /\ Len(result.Guests[1].Teams) = 1
    /\ result.Guests[1].Error = ""

\* Both runs of a pair returned, each with a result.
BothReturned ==
    /\ first # <<>>
    /\ ~first[1].ret.isNil
    /\ HasResult

\* The calls of the first run for the i-th listed guest, in the order made.
FirstCallsFor(i) ==
    SelectSeq(first[1].calls, LAMBDA c : c.op \in PerGuestOps /\ c.user = guests[i].Id)

IsPrefix(s, t) == Len(s) <= Len(t) /\ SubSeq(t, 1, Len(s)) = s

\* The server answered the calls for the i-th guest in the same way in both
\* runs: call by call the same request got the same error and the same
\* time, as far as both runs asked.
SameResponsesFor(i) ==
    \/ IsPrefix(FirstCallsFor(i), CallsFor(i))
    \/ IsPrefix(CallsFor(i), FirstCallsFor(i))

\* The records of a run for the guests other than the g-th, in the order of
\* the result.
RecordsButFor(gs, g) == SelectSeq(gs, LAMBDA r : r.Username # guests[g].Username)

C25_ResultAbsentOnlyOnFatalOutcome ==
    /\ Len(ret) <= 1
    /\ Returned =>
          /\ pc = "done"
          /\ Outcome \in {ExitSuccess, ExitConfigError, ExitAPIError, ExitPartialFailure}
          /\ ret[1].isNil <=> Outcome \in {ExitConfigError, ExitAPIError}
          /\ Outcome \in {ExitSuccess, ExitPartialFailure} => HasResult
          /\ (\E k \in CallsOf(PerGuestOps) : calls[k].err # "") => HasResult

\* A run over two guests in which a lookup failed for each of them, and which
\* returned a result with a record for each and ExitPartialFailure.
C25_Witness ==
    /\ HasResult
    /\ Outcome = ExitPartialFailure
    /\ Cardinality({ k \in CallsOf(PerGuestOps) : calls[k].err # "" }) = 2
    /\ Len(result.Guests) = 2
    /\ result.Summary.FailedLookups = 2

\* The k-th call listed guests and got an error or fewer users than a page
\* holds.
EndsListing(k) ==
    /\ calls[k].op = "GetGuestUsers"
    /\ \/ calls[k].err # ""
       \/ Len(PortGuestPage(calls[k].page, calls[k].perPage)) < calls[k].perPage

\* No GetGuestUsers call follows a failed or short page, and the calls for
\* one guest are at most one for the teams, one per team and one for the
\* last post.
ListingEndsAndGuestCallsAreBounded ==
    /\ \A k \in 1..Len(calls) :
         EndsListing(k) =>
            \A j \in (k + 1)..Len(calls) : calls[j].op # "GetGuestUsers"
    /\ \A i \in Listed : Len(CallsFor(i)) <= Len(memberships[i]) + 2
    /\ \A k \in CallsOf(PerGuestOps) : \E i \in Listed : calls[k].user = guests[i].Id

\* C26: against a port whose guest listing returns an error or a page with
\* fewer users than the page size (an empty page included), RunAudit makes
\* no further GetGuestUsers call after that page, makes a bounded number of
\* per-guest calls, and returns.
C26_RunAuditTerminates ==
    /\ []ListingEndsAndGuestCallsAreBounded
    /\ <>Returned

\* A run with pages one user longer than the guest list: the first page is
\* short and not empty, no second page is asked for, the calls for every
\* guest follow, and the run returns.
C26_Witness ==
    /\ HasResult
    /\ perPage = PageSize + 1
    /\ Len(guests) = PageSize
    /\ CallsOf({"GetGuestUsers"}) = {1}
    /\ EndsListing(1)
    /\ allGuests = guests
    /\ \A i \in Listed : CallsFor(i) # <<>>

\* The searches that failed with anything but a 404.
FatalSearches(rs) ==
    { k \in 1..Len(rs) : rs[k].err # "" /\ (rs[k].resp = Nil \/ rs[k].resp[1] # 404) }

\* C27: mmClient.GetLastPostDateForUser searches the teams given in their
\* order.  When no search fails with anything but a 404 it searches every
\* team and returns no error and the latest CreateAt over the posts of all
\* the teams, posts with CreateAt 0 left out, and nil when there is no such
\* post; a search answered 404 adds nothing.  When a search fails otherwise,
\* that search is the last, and an error is returned with no time, whatever
\* the earlier teams yielded.
C27_LatestPostOverTeams ==
    Applied("GetLastPostDateForUser") =>
        LET ids == unit.args[1]
            rs == unit.args[2]
            got == unit.out[1]
            fatal == FatalSearches(rs)
            found == { t \in UNION { { rs[k].posts[1][j] : j \in 1..Len(rs[k].posts[1]) } :
                                      k \in { k \in 1..Len(rs) :
                                                rs[k].err = "" /\ rs[k].posts # Nil } } :
                         t # 0 }
        IN IF fatal = {}
           THEN /\ got.err = ""
                /\ got.searched = ids
                /\ IF found = {}
                   THEN got.time = Nil
                   ELSE /\ got.time # Nil
                        /\ got.time[1] \in found
                        /\ \A t \in found : t <= got.time[1]
           ELSE LET stop == CHOOSE k \in fatal : \A j \in fatal : k <= j
                IN /\ got.err # ""
                   /\ got.time = Nil
                   /\ got.searched = SubSeq(ids, 1, stop)

\* Two teams: the search of the first found a post, the search of the second
\* failed with a status other than 404, and the call returned the error and
\* no time.
C27_Witness ==
    /\ Applied("GetLastPostDateForUser")
    /\ Len(unit.args[1]) = 2
    /\ unit.args[2][1].posts = << <<RecentMs>> >>
    /\ unit.args[2][2].resp = <<500>>
    /\ unit.out[1].time = Nil
    /\ unit.out[1].err =
         "error: the Mattermost server returned an unexpected error (HTTP 500). Check server logs for details"
    /\ unit.out[1].searched = <<"team1", "team2">>

\* The text sub occurs in the text s.
Contains(s, sub) ==
    \E i \in 1..(Len(s) - Len(sub) + 1) : SubSeq(s, i, i + Len(sub) - 1) = sub

\* C28: ClassifyAPIError returns an error for every status code: for 401
\* one that says "authentication failed", for 403 "permission denied", for
\* 404 "not found", for a code of 500 or more "unexpected error (HTTP
\* <code>)", and for every other code "API request failed (HTTP <code>)".
C28_ErrorMessageByStatus ==
    Applied("ClassifyAPIError") =>
        LET code == unit.args[2]
            msg == unit.out[1]
            said == { m \in { "authentication failed", "permission denied", "not found",
                              "unexpected error (HTTP " \o ToString(code) \o ")",
                              "API request failed (HTTP " \o ToString(code) \o ")" } :
                        Contains(msg, m) }
        IN /\ msg # ""
           /\ said = { IF code = 401 THEN "authentication failed"
                       ELSE IF code = 403 THEN "permission denied"
                       ELSE IF code = 404 THEN "not found"
                       ELSE IF code >= 500
                       THEN "unexpected error (HTTP " \o ToString(code) \o ")"
                       ELSE "API request failed (HTTP " \o ToString(code) \o ")" }

\* ClassifyAPIError applied to 429: a failed request, not a server error.
C28_Witness ==
    /\ Applied("ClassifyAPIError")
    /\ unit.args[2] = 429
    /\ unit.out = << "error: API request failed (HTTP 429)" >>

\* The records without an Error whose row in the table has the status word.
RowsWithStatus(word) == { k \in CleanRecords : guestStatus(result.Guests[k]) = word }

\* C29: in a returned result, the records without an Error whose table row
\* reads Deactivated, Inactive or Active are as many as the summary's
\* deactivated, inactive and active counts, and each such record has one of
\* the three words.
C29_StatusWordMatchesSummaryBucket ==
    HasResult =>
        /\ Cardinality(RowsWithStatus("Deactivated")) = result.Summary.DeactivatedGuests
        /\ Cardinality(RowsWithStatus("Inactive")) = result.Summary.InactiveGuests
        /\ Cardinality(RowsWithStatus("Active")) = result.Summary.ActiveGuests
        /\ \A k \in CleanRecords :
             guestStatus(result.Guests[k]) \in {"Deactivated", "Inactive", "Active"}

\* Two records without an Error, both flagged inactive: the row of the
\* deactivated one reads Deactivated, the row of the enabled one Inactive,
\* and the summary counts one of each.
C29_Witness ==
    /\ HasResult
    /\ CleanRecords = {1, 2}
    /\ \E k \in CleanRecords :
         /\ ~result.Guests[k].Active
         /\ result.Guests[k].Inactive
         /\ RowsWithStatus("Deactivated") = {k}
    /\ \E k \in CleanRecords :
         /\ result.Guests[k].Active
         /\ result.Guests[k].Inactive
         /\ RowsWithStatus("Inactive") = {k}
    /\ result.Summary.DeactivatedGuests = 1
    /\ result.Summary.InactiveGuests = 1

\* WriteOutput left a trace: a report at a destination, its warning, or the
\* report of its error.
WriteOutputCalled ==
    \/ file # <<>>
    \/ stdout # <<>> /\ ~flags.version
    \/ Wrote(WriteFailedLine)
    \/ Wrote(OutputFallbackLine(flags.output))

\* C30: in run, WriteOutput is called only after RunAudit returned a
\* result.  A process that exits after RunAudit returned exits with
\* RunAudit's outcome and with nothing written when there is no result, with
\* ExitOutputError when WriteOutput returned an error, also after an
\* outcome of ExitPartialFailure, and with RunAudit's outcome otherwise.
C30_ExitCodeAfterRunAudit ==
    /\ WriteOutputCalled => (HasResult /\ Exited)
    /\ (Exited /\ Returned) =>
         IF NoResult
         THEN exit = <<Outcome>> /\ stdout = <<>> /\ file = <<>>
         ELSE IF Wrote(WriteFailedLine)
         THEN exit = <<ExitOutputError>>
         ELSE exit = <<Outcome>>

\* An audit with failed lookups returned ExitPartialFailure, writing the
\* report to stdout failed, and the process exits with ExitOutputError.
C30_Witness ==
    /\ Exited
    /\ HasResult
    /\ Outcome = ExitPartialFailure
    /\ flags.output = ""
    /\ Wrote(WriteFailedLine)
    /\ Len(stdout) = 1
    /\ exit = <<ExitOutputError>>

====
